---- MODULE Spec2Model ----
(***************************************************************************)
(* Model of ui/qt/models/packet_list_record.cpp: the per-record lazy       *)
(* column-text cache (PacketListRecord) and the global column schema       *)
(* state (cinfo_column_, col_data_ver_).                                   *)
(*                                                                         *)
(* Column indices are 0-based as in the source; a QList is a TLA+ sequence *)
(* so at(column) is list[column + 1].                                      *)
(***************************************************************************)
EXTENDS Integers, Sequences, FiniteSets, TLC

\* ------------------------------------------------------------------ bounds
\* Cap on col_data_ver_ (resetColumns is disabled once it is reached).
MaxGen == 2

\* Cap on col_data_ver_ in SchemaSpec, where the column set is reset twice.
MaxSchemaGen == 3

\* The records (frames) of the capture file.
Records == {1, 2}

\* ------------------------------------------------------ texts (const char *)
\* A text is a sequence of characters; NL is the line-break character.
NL == "\n"

\* An empty QByteArray.
EmptyResult == <<>>

\* col_fill_in_frame_data: the text of a frame-data column (the frame number).
FrameText(r) == IF r = 1 THEN <<"1">> ELSE <<"2">>

\* col_fill_in_error: the text of the Info column and of the other
\* dissection-derived columns when the record could not be read.
ErrorMarker == <<"R", "e", "a", "d", " ", "e", "r", "r">>
Placeholder == <<"?", "?", "?">>

\* What dissecting record r leaves in col_data of a column of format fmt.
\* Record 1 is a packet with a three-line Info text and a two-line custom
\* field; record 2 has one-line texts.
ParsedText(r, fmt) ==
    CASE fmt = "INFO"     -> IF r = 1 THEN <<"a", NL, "b", NL, "c">> ELSE <<"i">>
      [] fmt = "CUSTOM"   -> IF r = 1 THEN <<"x", NL, "y">> ELSE <<"x">>
      [] fmt = "PROTOCOL" -> <<"p">>
      [] OTHER            -> <<>>

\* What dissecting record r leaves in col_expr.col_expr_val of a column:
\* record 1 yields a raw (unresolved) value for every column, record 2 none.
NoRaw == [isNull |-> TRUE, str |-> <<>>]
RawVal(r, fmt) ==
    IF r = 1 THEN [isNull |-> FALSE, str |-> <<"u">>] ELSE NoRaw

\* ------------------------------------------------- column descriptors (cinfo)
\* A column: its format and the "resolved" display preference
\* (get_column_resolved).
Col(fmt, res) == [fmt |-> fmt, resolved |-> res]

\* The column sets the capture file is given: frame data only; the frame
\* number and Info; Info and the frame number shown unresolved, with a custom
\* field.
Descriptors ==
    { << Col("NUMBER", TRUE) >>,
      << Col("NUMBER", TRUE), Col("INFO", TRUE) >>,
      << Col("INFO", FALSE), Col("NUMBER", FALSE), Col("CUSTOM", TRUE) >> }

InitialDescriptor == << Col("NUMBER", TRUE), Col("INFO", TRUE) >>

\* The largest column index a caller asks for.
MaxColumn == 3

num_cols(cols) == Len(cols)

\* col_based_on_frame_data(cinfo, i): the column is filled from frame_data
\* alone.
col_based_on_frame_data(cols, i) == cols[i + 1].fmt = "NUMBER"

\* have_custom_cols(cinfo)
have_custom_cols(cols) == \E i \in 1..Len(cols) : cols[i].fmt = "CUSTOM"

\* get_column_resolved(column)
get_column_resolved(cols, column) == cols[column + 1].resolved

VARIABLES
    recs,           \* the PacketListRecord objects, by frame
    col_data_ver_,  \* PacketListRecord::col_data_ver_
    cinfo_column_,  \* PacketListRecord::cinfo_column_ (QMap<int,int>)
    cinfo           \* cap_file->cinfo: the columns and the col_expr_val left there

vars == <<recs, col_data_ver_, cinfo_column_, cinfo>>

\* ------------------------------------------------------------ construction
\* PacketListRecord::PacketListRecord; color_filter is fdata_->color_filter.
NewRecord ==
    [ allocated           |-> FALSE,   \* col_text_ != 0
      col_text_           |-> <<>>,
      lines_              |-> 1,
      line_count_changed_ |-> FALSE,
      data_ver_           |-> 0,
      colorized_          |-> FALSE,
      conv_               |-> 0,
      color_filter        |-> 0 ]

NoRawCols(cols) == [i \in 1..Len(cols) |-> NoRaw]

Init ==
    /\ recs = [r \in Records |-> NewRecord]
    /\ col_data_ver_ = 1
    /\ cinfo_column_ = [i \in {} |-> 0]
    /\ cinfo = [cols |-> InitialDescriptor, col_expr_val |-> NoRawCols(InitialDescriptor)]


\* ------------------------------------------------------ external collaborators
\* col_fill_in_frame_data(fdata_, cinfo, column, FALSE): sets col_data of a
\* frame-data column from the frame; other formats are left as they are.
col_fill_in_frame_data(r, cols, col_data, column) ==
    IF cols[column + 1].fmt = "NUMBER"
    THEN [col_data EXCEPT ![column + 1] = FrameText(r)]
    ELSE col_data

\* col_fill_in_error(cinfo, fdata_, FALSE, FALSE): the Info column gets the
\* error marker, every other dissection-derived column the placeholder;
\* frame-data columns and col_expr_val are not touched.
col_fill_in_error(cols) ==
    [i \in 1..Len(cols) |->
        IF col_based_on_frame_data(cols, i - 1) THEN <<>>
        ELSE IF cols[i].fmt = "INFO" THEN ErrorMarker
        ELSE Placeholder]

\* epan_dissect_run + epan_dissect_fill_in_columns(&edt, FALSE, FALSE) with a
\* column_info: the col_data and col_expr_val the dissection of r leaves.
epan_dissect_fill_in_columns(r, cols) ==
    [i \in 1..Len(cols) |-> ParsedText(r, cols[i].fmt)]

epan_dissect_col_expr_val(r, cols) ==
    [i \in 1..Len(cols) |-> RawVal(r, cols[i].fmt)]

\* find_conversation_pinfo(pi, 0): the conversation of the dissected frame.
find_conversation_pinfo(r) == r

\* The color filter a dissection with need_colorize set leaves in
\* fdata_->color_filter: a rule if rules are in use, else none.
color_filters_colorize_packet(filters) == IF filters THEN 1 ELSE 0

\* ------------------------------------------------------- cacheColumnStrings
RECURSIVE CountNewlines(_)
CountNewlines(s) ==
    IF s = <<>> THEN 0
    ELSE (IF Head(s) = NL THEN 1 ELSE 0) + CountNewlines(Tail(s))

\* cinfo_column_.value(column, -1)
MapValue(map, column) == IF column \in DOMAIN map THEN map[column] ELSE -1

\* The text cacheColumnStrings appends for one column (lines 277-294).
ColumnStr(r, cols, col_data, col_expr_val, map, column) ==
    IF ~get_column_resolved(cols, column) /\ ~col_expr_val[column + 1].isNull
    THEN col_expr_val[column + 1].str
    ELSE IF MapValue(map, column) < 0
         THEN col_fill_in_frame_data(r, cols, col_data, column)[column + 1]
         ELSE col_data[column + 1]

\* The loop of cacheColumnStrings from `column` on (lines 217-303).  The text
\* appended is the string pool's copy of col_str (g_string_chunk_insert_const),
\* which has the content of col_str.
RECURSIVE CacheLoop(_, _, _, _, _, _, _)
CacheLoop(st, r, cols, col_data, col_expr_val, map, column) ==
    IF column >= num_cols(cols) THEN st
    ELSE LET col_str   == ColumnStr(r, cols, col_data, col_expr_val, map, column)
             col_lines == 1 + CountNewlines(col_str)
             grown     == col_lines > st.lines_
             st2 == [st EXCEPT
                        !.col_text_ = Append(@, col_str),
                        !.lines_ = IF grown THEN col_lines ELSE @,
                        !.line_count_changed_ = IF grown THEN TRUE ELSE @]
         IN  CacheLoop(st2, r, cols, col_data, col_expr_val, map, column + 1)

\* Mutant: lines_ is not reset before the loop.
cacheColumnStrings_KeepLines(st, r, cinfo_null, cols, col_data, col_expr_val, map) ==
    IF cinfo_null THEN st
    ELSE CacheLoop([st EXCEPT !.allocated = TRUE,
                              !.col_text_ = <<>>,
                              !.line_count_changed_ = FALSE],
                   r, cols, col_data, col_expr_val, map, 0)

\* Mutant: an existing list is deleted instead of cleared.
cacheColumnStrings_Delete(st, r, cinfo_null, cols, col_data, col_expr_val, map) ==
    IF cinfo_null THEN st
    ELSE IF st.allocated
    THEN [st EXCEPT !.allocated = FALSE,
                    !.col_text_ = <<>>,
                    !.lines_ = 1,
                    !.line_count_changed_ = FALSE]
    ELSE CacheLoop([st EXCEPT !.allocated = TRUE,
                              !.col_text_ = <<>>,
                              !.lines_ = 1,
                              !.line_count_changed_ = FALSE],
                   r, cols, col_data, col_expr_val, map, 0)

\* PacketListRecord::cacheColumnStrings(cinfo); cinfo_null is !cinfo.
cacheColumnStrings(st, r, cinfo_null, cols, col_data, col_expr_val, map) ==
    IF cinfo_null THEN st
    ELSE CacheLoop([st EXCEPT !.allocated = TRUE,
                              !.col_text_ = <<>>,
                              !.lines_ = 1,
                              !.line_count_changed_ = FALSE],
                   r, cols, col_data, col_expr_val, map, 0)

\* ------------------------------------------------------------------ dissect
\* What a call did: the record afterwards, the col_expr_val left in
\* cap_file->cinfo, which collaborators were invoked, and the text returned.
Outcome(st, cev, dissected, dc, dcol, rd, ok, run, tree, cached, looked, result) ==
    [ rec |-> st, col_expr_val |-> cev,
      dissected       |-> dissected,  \* dissect was called
      dissect_columns |-> dc,         \* its dissect_columns
      dissect_color   |-> dcol,       \* its dissect_color
      read            |-> rd,         \* cf_read_record_r was called
      read_ok         |-> ok,         \* and succeeded
      run             |-> run,        \* epan_dissect_init / epan_dissect_run were called
      tree            |-> tree,       \* with create_proto_tree set
      prime           |-> run /\ dcol, \* color_filters_prime_edt was called
      cached          |-> cached,     \* cacheColumnStrings rewrote col_text_
      looked          |-> looked,     \* find_conversation_pinfo was called
      result          |-> result ]

\* Mutant: every pass refills the columns.
DissectColumns_Always(st, ver) == TRUE

\* gboolean dissect_columns (line 108), once col_text_ is allocated.
DissectColumns(st, ver) == st.col_text_ = <<>> \/ st.data_ver_ # ver

\* Mutant: a tree is built whenever the columns are refilled.
CreateProtoTree_Always(dissect_color, dissect_columns, cols, filters, extractors) ==
    \/ dissect_color /\ filters
    \/ dissect_columns

\* create_proto_tree (lines 158-160).
CreateProtoTree(dissect_color, dissect_columns, cols, filters, extractors) ==
    \/ dissect_color /\ filters
    \/ dissect_columns /\ (have_custom_cols(cols) \/ extractors)

\* Mutant: the error branch resolves the highlighting but forgets colorized_.
ReadErrorFill_NoColorized(st, r, ci, map, dissect_columns, dissect_color) ==
    LET st2 == IF dissect_columns
               THEN cacheColumnStrings(st, r, FALSE, ci.cols, col_fill_in_error(ci.cols),
                                       ci.col_expr_val, map)
               ELSE st
    IN  IF dissect_color
        THEN [st2 EXCEPT !.color_filter = 0]
        ELSE st2

\* The branch taken when cf_read_record_r fails (lines 132-143).
ReadErrorFill(st, r, ci, map, dissect_columns, dissect_color) ==
    LET st2 == IF dissect_columns
               THEN cacheColumnStrings(st, r, FALSE, ci.cols, col_fill_in_error(ci.cols),
                                       ci.col_expr_val, map)
               ELSE st
    IN  IF dissect_color
        THEN [st2 EXCEPT !.color_filter = 0, !.colorized_ = TRUE]
        ELSE st2

\* Mutant: every successful pass marks the record colorized.
DissectFill_AlwaysColorized(st, r, cols, cev, map, ver, dissect_columns, dissect_color, filters) ==
    LET st2 == IF dissect_color
               THEN [st EXCEPT !.color_filter = color_filters_colorize_packet(filters)]
               ELSE st
        st3 == IF dissect_columns
               THEN cacheColumnStrings(st2, r, FALSE, cols,
                                       epan_dissect_fill_in_columns(r, cols), cev, map)
               ELSE st2
    IN  [st3 EXCEPT !.colorized_ = TRUE, !.data_ver_ = ver,
                    !.conv_ = find_conversation_pinfo(r)]

\* Mutant: a successful pass does not store the conversation it looked up.
DissectFill_NoConv(st, r, cols, cev, map, ver, dissect_columns, dissect_color, filters) ==
    LET st2 == IF dissect_color
               THEN [st EXCEPT !.color_filter = color_filters_colorize_packet(filters)]
               ELSE st
        st3 == IF dissect_columns
               THEN cacheColumnStrings(st2, r, FALSE, cols,
                                       epan_dissect_fill_in_columns(r, cols), cev, map)
               ELSE st2
        st4 == IF dissect_color THEN [st3 EXCEPT !.colorized_ = TRUE] ELSE st3
    IN  [st4 EXCEPT !.data_ver_ = ver]

\* The rest of dissect after a successful read (lines 162-194); cev is the
\* col_expr_val the dissection left in cinfo.
DissectFill(st, r, cols, cev, map, ver, dissect_columns, dissect_color, filters) ==
    LET st2 == IF dissect_color
               THEN [st EXCEPT !.color_filter = color_filters_colorize_packet(filters)]
               ELSE st
        st3 == IF dissect_columns
               THEN cacheColumnStrings(st2, r, FALSE, cols,
                                       epan_dissect_fill_in_columns(r, cols), cev, map)
               ELSE st2
        st4 == IF dissect_color THEN [st3 EXCEPT !.colorized_ = TRUE] ELSE st3
    IN  [st4 EXCEPT !.data_ver_ = ver, !.conv_ = find_conversation_pinfo(r)]

\* Mutant: the dissector is initialised, primed and run before the result of
\* the read is looked at.
dissect_RunBeforeRead(st, r, cap_null, ci, map, ver, dissect_color, read_ok, filters, extractors) ==
    LET st1 == [st EXCEPT !.allocated = TRUE]
        dissect_columns == DissectColumns(st1, ver)
    IN
    IF cap_null
    THEN Outcome(st1, ci.col_expr_val, TRUE, dissect_columns, dissect_color,
                 FALSE, FALSE, FALSE, FALSE, FALSE, FALSE, EmptyResult)
    ELSE IF ~read_ok
    THEN Outcome(ReadErrorFill(st1, r, ci, map, dissect_columns, dissect_color),
                 ci.col_expr_val, TRUE, dissect_columns, dissect_color,
                 TRUE, FALSE, TRUE,
                 CreateProtoTree(dissect_color, dissect_columns, ci.cols,
                                 filters, extractors),
                 dissect_columns, FALSE, EmptyResult)
    ELSE LET cev == IF dissect_columns THEN epan_dissect_col_expr_val(r, ci.cols)
                    ELSE ci.col_expr_val
         IN  Outcome(DissectFill(st1, r, ci.cols, cev, map, ver,
                                 dissect_columns, dissect_color, filters),
                     cev, TRUE, dissect_columns, dissect_color,
                     TRUE, TRUE, TRUE,
                     CreateProtoTree(dissect_color, dissect_columns, ci.cols,
                                     filters, extractors),
                     dissect_columns, TRUE, EmptyResult)

\* PacketListRecord::dissect(cap_file, dissect_color).  read_ok is the result
\* of cf_read_record_r, filters of color_filters_used(), extractors of
\* have_field_extractors().
dissect(st, r, cap_null, ci, map, ver, dissect_color, read_ok, filters, extractors) ==
    LET st1 == [st EXCEPT !.allocated = TRUE]
        dissect_columns == DissectColumns(st1, ver)
    IN
    IF cap_null
    THEN Outcome(st1, ci.col_expr_val, TRUE, dissect_columns, dissect_color,
                 FALSE, FALSE, FALSE, FALSE, FALSE, FALSE, EmptyResult)
    ELSE IF ~read_ok
    THEN Outcome(ReadErrorFill(st1, r, ci, map, dissect_columns, dissect_color),
                 ci.col_expr_val, TRUE, dissect_columns, dissect_color,
                 TRUE, FALSE, FALSE, FALSE, dissect_columns, FALSE, EmptyResult)
    ELSE LET cev == IF dissect_columns THEN epan_dissect_col_expr_val(r, ci.cols)
                    ELSE ci.col_expr_val
         IN  Outcome(DissectFill(st1, r, ci.cols, cev, map, ver,
                                 dissect_columns, dissect_color, filters),
                     cev, TRUE, dissect_columns, dissect_color,
                     TRUE, TRUE, TRUE,
                     CreateProtoTree(dissect_color, dissect_columns, ci.cols,
                                     filters, extractors),
                     dissect_columns, TRUE, EmptyResult)

\* ------------------------------------------------------------- columnString
\* col_text_->value(column, QByteArray())
ListValue(list, column) ==
    IF column >= 0 /\ column < Len(list) THEN list[column + 1] ELSE EmptyResult

\* Mutant: the guard forgets the capture-file check.
OutOfRange_NoNullCheck(cap_null, cols, column) ==
    column < 0 \/ column > num_cols(cols)

\* The guard of line 63.
OutOfRange(cap_null, cols, column) ==
    cap_null \/ column < 0 \/ column > num_cols(cols)

\* The condition of line 68 (a cached text is never a null pointer).
NeedsDissect(st, column, ver, dissect_color) ==
    \/ ~st.allocated
    \/ column >= Len(st.col_text_)
    \/ st.data_ver_ # ver
    \/ dissect_color

\* PacketListRecord::columnString(cap_file, column, colorized) called on the
\* record st of frame r: what the call does and returns.
columnString(st, r, cap_null, ci, map, ver, column, colorized, read_ok, filters, extractors) ==
    LET dissect_color == colorized /\ ~st.colorized_
    IN
    IF OutOfRange(cap_null, ci.cols, column)
    THEN Outcome(st, ci.col_expr_val, FALSE, FALSE, FALSE,
                 FALSE, FALSE, FALSE, FALSE, FALSE, FALSE, EmptyResult)
    ELSE IF NeedsDissect(st, column, ver, dissect_color)
    THEN LET out == dissect(st, r, cap_null, ci, map, ver, dissect_color,
                            read_ok, filters, extractors)
         IN  [out EXCEPT !.result = ListValue(out.rec.col_text_, column)]
    ELSE Outcome(st, ci.col_expr_val, FALSE, FALSE, FALSE,
                 FALSE, FALSE, FALSE, FALSE, FALSE, FALSE, ListValue(st.col_text_, column))

\* ------------------------------------------------------------- resetColumns
\* invalidateAllRecords()
invalidateAllRecords(ver) == ver + 1

\* The map the loop of lines 83-90 builds.
BuildColumnMap(cols) ==
    LET dissected == {i \in 0..(num_cols(cols) - 1) : ~col_based_on_frame_data(cols, i)}
    IN  [i \in dissected |-> Cardinality({k \in dissected : k < i})]

\* Mutant: cinfo_column_ is not cleared before the loop inserts the entries.
resetColumns_NoClear(ver, map, cinfo_null, cols) ==
    [ col_data_ver_ |-> invalidateAllRecords(ver),
      cinfo_column_ |->
          IF cinfo_null THEN map
          ELSE LET new == BuildColumnMap(cols)
               IN  [i \in DOMAIN map \cup DOMAIN new |->
                       IF i \in DOMAIN new THEN new[i] ELSE map[i]] ]

\* PacketListRecord::resetColumns(cinfo): the generation and the map
\* afterwards.  cinfo_null is a call with no column_info.
resetColumns(ver, map, cinfo_null, cols) ==
    [ col_data_ver_ |-> invalidateAllRecords(ver),
      cinfo_column_ |-> IF cinfo_null THEN map ELSE BuildColumnMap(cols) ]

\* ----------------------------------------------------------- resetColorized
\* Mutant: resetColorized also invalidates the cached texts.
resetColorized_Invalidate(st) == [st EXCEPT !.colorized_ = FALSE, !.data_ver_ = 0]

\* PacketListRecord::resetColorized()
resetColorized(st) == [st EXCEPT !.colorized_ = FALSE]

\* -------------------------------------------------------------- the program
Columns == -1..MaxColumn

\* The environment's answers are drawn only where the code asks for them:
\* cf_read_record_r when dissect runs with a capture file,
\* color_filters_used and have_field_extractors after a successful read.
WillRead(st, cap_null, column, colorized) ==
    /\ ~OutOfRange(cap_null, cinfo.cols, column)
    /\ NeedsDissect(st, column, col_data_ver_, colorized /\ ~st.colorized_)

ReadResults(st, cap_null, column, colorized) ==
    IF WillRead(st, cap_null, column, colorized) THEN BOOLEAN ELSE {FALSE}

Answers(asked) == IF asked THEN BOOLEAN ELSE {FALSE}

\* A caller asks record r for the text of a column.
ColumnStringCall ==
    \E r \in Records, cap_null \in BOOLEAN, column \in Columns, colorized \in BOOLEAN :
      \E read_ok \in ReadResults(recs[r], cap_null, column, colorized) :
        \E filters \in Answers(read_ok), extractors \in Answers(read_ok) :
          LET out == columnString(recs[r], r, cap_null, cinfo, cinfo_column_, col_data_ver_,
                                  column, colorized, read_ok, filters, extractors)
          IN  /\ recs' = [recs EXCEPT ![r] = out.rec]
              /\ cinfo' = [cinfo EXCEPT !.col_expr_val = out.col_expr_val]
              /\ UNCHANGED <<col_data_ver_, cinfo_column_>>

\* Mutant: resetColumns eagerly drops every record's cached texts.
ResetColumnsCall_Eager ==
    \E cols \in Descriptors :
        LET out == resetColumns(col_data_ver_, cinfo_column_, FALSE, cols)
        IN  /\ col_data_ver_ < MaxGen
            /\ col_data_ver_' = out.col_data_ver_
            /\ cinfo_column_' = out.cinfo_column_
            /\ cinfo' = [cols |-> cols, col_expr_val |-> NoRawCols(cols)]
            /\ recs' = [r \in Records |-> [recs[r] EXCEPT !.col_text_ = <<>>]]

\* The column set changes: the capture file's column_info is rebuilt and
\* resetColumns is called with it.
ResetColumnsCallBelow(cap) ==
    \E cols \in Descriptors :
        LET out == resetColumns(col_data_ver_, cinfo_column_, FALSE, cols)
        IN  /\ col_data_ver_ < cap
            /\ col_data_ver_' = out.col_data_ver_
            /\ cinfo_column_' = out.cinfo_column_
            /\ cinfo' = [cols |-> cols, col_expr_val |-> NoRawCols(cols)]
            /\ UNCHANGED recs

ResetColumnsCall == ResetColumnsCallBelow(MaxGen)

\* resetColumns is called with no column_info.
ResetColumnsNullCallBelow(cap) ==
    LET out == resetColumns(col_data_ver_, cinfo_column_, TRUE, <<>>)
    IN  /\ col_data_ver_ < cap
        /\ col_data_ver_' = out.col_data_ver_
        /\ cinfo_column_' = out.cinfo_column_
        /\ UNCHANGED <<recs, cinfo>>

ResetColumnsNullCall == ResetColumnsNullCallBelow(MaxGen)

\* The coloring rules changed: a record's colorization is reset.
ResetColorizedCall ==
    \E r \in Records :
        /\ recs' = [recs EXCEPT ![r] = resetColorized(recs[r])]
        /\ UNCHANGED <<col_data_ver_, cinfo_column_, cinfo>>

Next ==
    \/ ColumnStringCall
    \/ ResetColumnsCall
    \/ ResetColumnsNullCall
    \/ ResetColorizedCall

Spec == Init /\ [][Next]_vars

\* The same program with the column set reset up to MaxSchemaGen - 1 times,
\* so that resetColumns also runs on a map an earlier call has built.
SchemaResetColumnsCall == ResetColumnsCallBelow(MaxSchemaGen)

SchemaResetColumnsNullCall == ResetColumnsNullCallBelow(MaxSchemaGen)

SchemaNext ==
    \/ ColumnStringCall
    \/ SchemaResetColumnsCall
    \/ SchemaResetColumnsNullCall
    \/ ResetColorizedCall

SchemaSpec == Init /\ [][SchemaNext]_vars

\* ======================================================================
\* Properties.  A call is examined in every reachable state by applying
\* columnString to the state with every input and answer of the environment.
\* ======================================================================

\* The environment's answers during one call.
Env == [read_ok : BOOLEAN, filters : BOOLEAN, extractors : BOOLEAN]

\* The environments without field extractors (have_field_extractors() only
\* decides create_proto_tree, never what is written to the record).
EnvNoExtractors == {e \in Env : ~e.extractors}

\* column is a displayed column of cols.
InRange(cols, column) == column >= 0 /\ column < num_cols(cols)

\* columnString with a capture file, on record st of frame r, the schema
\* state being (ci, map, ver).
CallWith(st, r, ci, map, ver, column, colorized, e) ==
    columnString(st, r, FALSE, ci, map, ver, column, colorized,
                 e.read_ok, e.filters, e.extractors)

\* The same in the current schema state.
Call(st, r, ci, column, colorized, e) ==
    CallWith(st, r, ci, cinfo_column_, col_data_ver_, column, colorized, e)

\* cap_file->cinfo after a call.
After(ci, out) == [ci EXCEPT !.col_expr_val = out.col_expr_val]

\* The record holds a text for every column of cols.
Populated(st, cols) == st.allocated /\ Len(st.col_text_) = num_cols(cols)

\* The record's cache is current: populated under the current generation.
Current(st, cols, ver) == Populated(st, cols) /\ st.col_text_ # <<>> /\ st.data_ver_ = ver

\* C1 (as claimed): with no resetColumns and no resetColorized in between, two
\* consecutive columnString calls for the same in-range column and the same
\* colorizeRequested return the same text, and epan_dissect_run is invoked at
\* most once across the two.
C1_Idempotence ==
    \A r \in Records, column \in Columns, colorized \in BOOLEAN, e1 \in Env, e2 \in Env :
        InRange(cinfo.cols, column) =>
            LET o1 == Call(recs[r], r, cinfo, column, colorized, e1)
                o2 == Call(o1.rec, r, After(cinfo, o1), column, colorized, e2)
            IN  /\ o1.result = o2.result
                /\ ~(o1.run /\ o2.run)

\* C2 (as claimed): once resetColumns has bumped the generation, the next
\* columnString call on a populated record repopulates it exactly once (a
\* further call does not dissect), leaving one text per column of the new
\* descriptor and data_ver_ equal to the new generation.
C2_SchemaInvalidation ==
    [][ col_data_ver_' # col_data_ver_ =>
          \A r \in Records, column \in Columns, colorized \in BOOLEAN, e1 \in Env, e2 \in Env :
              (recs[r].col_text_ # <<>> /\ InRange(cinfo'.cols, column)) =>
                  LET o1 == CallWith(recs'[r], r, cinfo', cinfo_column_', col_data_ver_',
                                     column, colorized, e1)
                      o2 == CallWith(o1.rec, r, After(cinfo', o1), cinfo_column_',
                                     col_data_ver_', column, colorized, e2)
                  IN  /\ o1.dissected /\ o1.cached
                      /\ ~o2.dissected
                      /\ Len(o1.rec.col_text_) = num_cols(cinfo'.cols)
                      /\ o1.rec.data_ver_ = col_data_ver_' ]_vars

\* C3 (as claimed): on a record populated without colorization, a
\* columnString call with colorizeRequested = TRUE dissects once, and no later
\* call for a displayed column, with either flag, dissects again.
C3_ColorizationMonotone ==
    \A r \in Records, column \in Columns, column2 \in Columns, later \in BOOLEAN,
       e1 \in Env, e2 \in Env :
        ( /\ recs[r].col_text_ # <<>> /\ ~recs[r].colorized_
          /\ InRange(cinfo.cols, column) /\ InRange(cinfo.cols, column2) ) =>
            LET o1 == Call(recs[r], r, cinfo, column, TRUE, e1)
                o2 == Call(o1.rec, r, After(cinfo, o1), column2, later, e2)
            IN  o1.dissected /\ ~o2.dissected

\* C4 (as claimed): when cf_read_record_r fails, columnString(Info column,
\* FALSE) returns the error marker, and the same call repeated does not
\* invoke cf_read_record_r again.
C4_ReadFailureNotRetried ==
    \A r \in Records, column \in Columns, e1 \in Env, e2 \in Env :
        ( /\ InRange(cinfo.cols, column)
          /\ cinfo.cols[column + 1].fmt = "INFO"
          /\ ~e1.read_ok ) =>
            LET o1 == Call(recs[r], r, cinfo, column, FALSE, e1)
                o2 == Call(o1.rec, r, After(cinfo, o1), column, FALSE, e2)
            IN  o1.read => (o1.result = ErrorMarker /\ ~o2.read)

\* The text col_fill_in_error leaves in a dissection-derived column.
ErrorFill(col) == IF col.fmt = "INFO" THEN ErrorMarker ELSE Placeholder

\* C5 (as claimed, at a pass that refills the columns): after a pass in
\* which the record read fails and the cache was empty or stale, the cache is
\* populated, the Info column holds the error marker and every other
\* dissection-derived column holds the placeholder.
C5_ReadFailureContainment ==
    \A r \in Records, column \in Columns, colorized \in BOOLEAN, e \in Env :
        (InRange(cinfo.cols, column) /\ ~e.read_ok) =>
            LET o == Call(recs[r], r, cinfo, column, colorized, e)
            IN  (o.read /\ o.dissect_columns) =>
                  /\ Populated(o.rec, cinfo.cols)
                  /\ \A c \in 1..Len(cinfo.cols) :
                        ~col_based_on_frame_data(cinfo.cols, c - 1) =>
                            o.rec.col_text_[c] = ErrorFill(cinfo.cols[c])

\* C6 (as claimed): columnString with column = -1 and with column = num_cols
\* returns an empty result and changes nothing: no read, no dissection, the
\* record as it was.
C6_BoundsSafety ==
    \A r \in Records, colorized \in BOOLEAN, e \in Env :
        \A column \in {-1, num_cols(cinfo.cols)} :
            LET o == Call(recs[r], r, cinfo, column, colorized, e)
            IN  /\ o.result = EmptyResult
                /\ o.rec = recs[r]
                /\ ~o.read /\ ~o.run

\* Some displayed column is dissection-derived.
HasDissectedColumn(cols) ==
    \E i \in 0..(num_cols(cols) - 1) : ~col_based_on_frame_data(cols, i)

\* C7 (as claimed): after a successful read the dissector is invoked only if
\* (colorization is being resolved and rules are active) or (the columns are
\* refilled and a column is dissection-derived or a field extractor exists).
C7_ParserOnlyIfNeeded ==
    \A r \in Records, column \in Columns, colorized \in BOOLEAN, e \in Env :
        InRange(cinfo.cols, column) =>
            LET o == Call(recs[r], r, cinfo, column, colorized, e)
            IN  (o.read_ok /\ o.run) =>
                    \/ o.dissect_color /\ e.filters
                    \/ o.dissect_columns /\ (HasDissectedColumn(cinfo.cols) \/ e.extractors)

\* C7 (amended): after a successful read the dissector always runs; what the
\* condition decides is whether it builds a protocol tree, which it does
\* exactly if (colorization is being resolved and rules are active) or (the
\* columns are refilled and a custom column or a field extractor exists).
C7_TreeOnlyIfNeeded ==
    \A r \in Records, column \in Columns, colorized \in BOOLEAN, e \in Env :
        LET o == Call(recs[r], r, cinfo, column, colorized, e)
        IN  (o.read /\ e.read_ok) =>
              /\ o.run
              /\ o.tree <=>
                    \/ o.dissect_color /\ e.filters
                    \/ /\ o.dissect_columns
                       /\ \/ \E c \in 1..Len(cinfo.cols) : cinfo.cols[c].fmt = "CUSTOM"
                          \/ e.extractors

\* C7 witness: with only a frame-data column displayed, a record has been
\* populated by a dissection.
C7_Witness ==
    \E r \in Records :
        /\ ~HasDissectedColumn(cinfo.cols)
        /\ Current(recs[r], cinfo.cols, col_data_ver_)
        /\ recs[r].conv_ # 0
        /\ recs[r].col_text_ = << FrameText(r) >>

\* C8: resetColorized clears colorized_ and nothing else; afterwards, on a
\* current cache, a call without colorization does not dissect, a call with
\* colorization dissects, and the call after that does not.
C8_ResetColorized ==
    [][ \A r \in Records :
          (recs[r].colorized_ /\ ~recs'[r].colorized_) =>
            /\ recs'[r] = [recs[r] EXCEPT !.colorized_ = FALSE]
            /\ col_data_ver_' = col_data_ver_
            /\ Current(recs'[r], cinfo'.cols, col_data_ver_') =>
                 \A column \in Columns, e1 \in Env, e2 \in Env :
                    InRange(cinfo'.cols, column) =>
                      LET o0 == CallWith(recs'[r], r, cinfo', cinfo_column_', col_data_ver_',
                                         column, FALSE, e1)
                          o1 == CallWith(recs'[r], r, cinfo', cinfo_column_', col_data_ver_',
                                         column, TRUE, e1)
                          o2 == CallWith(o1.rec, r, After(cinfo', o1), cinfo_column_',
                                         col_data_ver_', column, TRUE, e2)
                      IN  ~o0.dissected /\ o1.dissected /\ ~o2.dissected ]_vars

\* C8 witness: a record with a current cache that was colorized by a rule and
\* whose colorization has been reset.
C8_Witness ==
    \E r \in Records :
        /\ Current(recs[r], cinfo.cols, col_data_ver_)
        /\ recs[r].color_filter = 1
        /\ ~recs[r].colorized_

\* C9: resetColumns changes the generation (and the map) and no record; every
\* record is stale afterwards, and a record's cached texts are replaced only
\* by a columnString call on that record.
C9_LazyInvalidation ==
    [][ /\ col_data_ver_' # col_data_ver_ =>
              /\ recs' = recs
              /\ \A r \in Records : recs'[r].data_ver_ # col_data_ver_'
        /\ \A r \in Records :
              recs'[r].col_text_ # recs[r].col_text_ =>
                  /\ col_data_ver_' = col_data_ver_ /\ cinfo_column_' = cinfo_column_
                  /\ \A q \in Records \ {r} : recs'[q] = recs[q]
                  /\ \E colorized \in BOOLEAN, read_ok \in BOOLEAN, filters \in BOOLEAN :
                        \E column \in Columns :
                            recs'[r] = columnString(recs[r], r, FALSE, cinfo, cinfo_column_,
                                                    col_data_ver_, column, colorized,
                                                    read_ok, filters, FALSE).rec ]_vars

\* C9 witness: after a schema change one record has been repopulated while
\* another still holds the texts of an older generation.
C9_Witness ==
    \E r \in Records, q \in Records :
        /\ col_data_ver_ > 1
        /\ Current(recs[r], cinfo.cols, col_data_ver_)
        /\ recs[q].col_text_ # <<>>
        /\ recs[q].data_ver_ > 0 /\ recs[q].data_ver_ < col_data_ver_

\* C10: with no capture file, columnString returns an empty result and leaves
\* the record as it is, dissect leaves the cached texts, data_ver_,
\* colorized_ and lines_ as they are, cacheColumnStrings with no column_info
\* leaves the record as it is, and nothing reads or dissects the record.
C10_MissingSchema ==
    \A r \in Records, column \in Columns, colorized \in BOOLEAN, e \in Env :
        LET st == recs[r]
            o == columnString(st, r, TRUE, cinfo, cinfo_column_, col_data_ver_,
                              column, colorized, e.read_ok, e.filters, e.extractors)
            d == dissect(st, r, TRUE, cinfo, cinfo_column_, col_data_ver_,
                         colorized, e.read_ok, e.filters, e.extractors)
            c == cacheColumnStrings(st, r, TRUE, cinfo.cols, col_fill_in_error(cinfo.cols),
                                    cinfo.col_expr_val, cinfo_column_)
        IN  /\ o.rec = st /\ o.result = EmptyResult /\ ~o.read /\ ~o.run
            /\ d.rec.col_text_ = st.col_text_ /\ d.rec.data_ver_ = st.data_ver_
            /\ d.rec.colorized_ = st.colorized_ /\ d.rec.lines_ = st.lines_
            /\ ~d.read /\ ~d.run
            /\ c = st

\* C10 witness: a record that was never populated next to a populated one,
\* after the schema has changed.
C10_Witness ==
    \E r \in Records, q \in Records :
        /\ col_data_ver_ > 1
        /\ ~recs[r].allocated
        /\ Current(recs[q], cinfo.cols, col_data_ver_)

\* C11 (as claimed): after a population, line_count_changed_ is true exactly
\* if the new lines_ differs from the lines_ the record had before it.
C11_LineCountChanged ==
    \A r \in Records, column \in Columns, colorized \in BOOLEAN, e \in Env :
        LET o == Call(recs[r], r, cinfo, column, colorized, e)
        IN  o.cached =>
              (o.rec.line_count_changed_ <=> o.rec.lines_ # recs[r].lines_)

\* The largest line count of the texts of a row: newlines + 1, at least 1.
MaxLines(texts) ==
    LET counts == {1} \cup {1 + CountNewlines(texts[c]) : c \in 1..Len(texts)}
    IN  CHOOSE n \in counts : \A k \in counts : k <= n

\* C12: lines_ is at least 1 in every state, and once col_text_ holds texts
\* lines_ is the maximum over them of (number of newlines + 1).
C12_LineCount ==
    \A r \in Records :
        /\ recs[r].lines_ >= 1
        /\ recs[r].col_text_ # <<>> => recs[r].lines_ = MaxLines(recs[r].col_text_)

\* C12 witness: a record that an earlier pass dissected now holds the one-line
\* error fill, next to a record with a three-line row.
C12_Witness ==
    \E r \in Records, q \in Records :
        /\ recs[r].lines_ = 3
        /\ recs[q].lines_ = 1 /\ recs[q].conv_ # 0
        /\ \E c \in 1..Len(recs[q].col_text_) : recs[q].col_text_[c] = ErrorMarker

\* C13: in every pass whose read fails, epan_dissect_init / epan_dissect_run
\* and color_filters_prime_edt are not called, and no tree is asked for.
C13_NoParseOnReadFailure ==
    \A r \in Records, column \in Columns, colorized \in BOOLEAN, e \in Env :
        LET o == Call(recs[r], r, cinfo, column, colorized, e)
        IN  (o.read /\ ~o.read_ok) => ~o.run /\ ~o.prime /\ ~o.tree

\* C13 witness: a record a failed pass has filled and that no successful pass
\* has touched, after a colorize-requested failed pass.
C13_Witness ==
    \E r \in Records :
        /\ recs[r].data_ver_ = 0 /\ recs[r].conv_ = 0
        /\ recs[r].colorized_
        /\ \E c \in 1..Len(recs[r].col_text_) : recs[r].col_text_[c] = ErrorMarker

\* C14 (as claimed): after any pass whose read fails, whether or not the
\* colorization was requested, the highlighting result is cleared and
\* colorized_ is true.
C14_FailureResolvesColor ==
    \A r \in Records, column \in Columns, colorized \in BOOLEAN, e \in Env :
        LET o == Call(recs[r], r, cinfo, column, colorized, e)
        IN  (o.read /\ ~o.read_ok) =>
              o.rec.color_filter = 0 /\ o.rec.colorized_

\* C14 (amended): a failed pass that was resolving the colorization clears
\* the highlighting result and sets colorized_, so that the next
\* colorize-requested access does not dissect for the color again; a failed
\* pass that was not leaves the highlighting result and colorized_ alone.
C14_FailureResolvesRequestedColor ==
    \A r \in Records, column \in Columns, colorized \in BOOLEAN, e \in EnvNoExtractors :
        LET o == Call(recs[r], r, cinfo, column, colorized, e)
        IN  (o.read /\ ~o.read_ok) =>
              IF o.dissect_color
              THEN /\ o.rec.color_filter = 0
                   /\ o.rec.colorized_
                   /\ \A read_ok2 \in BOOLEAN :
                        ~Call(o.rec, r, After(cinfo, o), column, TRUE,
                              [e EXCEPT !.read_ok = read_ok2]).dissect_color
              ELSE /\ o.rec.color_filter = recs[r].color_filter
                   /\ o.rec.colorized_ = recs[r].colorized_

\* C14 witness: a record highlighted by a rule, its row then replaced by the
\* error fill of a failed pass without colorization, which kept the rule.
C14_Witness ==
    \E r \in Records, q \in Records :
        /\ recs[r].color_filter = 1 /\ recs[r].colorized_
        /\ \E c \in 1..Len(recs[r].col_text_) : recs[r].col_text_[c] = ErrorMarker
        /\ recs[q].colorized_ /\ recs[q].color_filter = 0 /\ recs[q].conv_ = 0

\* C15: colorized_ changes in two ways only.  It goes from true to false in a
\* step that is resetColorized on that record, and from false to true in a
\* step that is a colorize-requested columnString on it (so colorization is
\* part of the pass) and that no columnString without the request could have
\* been; a step that changes the generation (resetColumns) never changes it.
C15_ColorizedTransitions ==
    [][\A r \in Records :
         recs'[r].colorized_ # recs[r].colorized_ =>
           /\ col_data_ver_' = col_data_ver_
           /\ cinfo_column_' = cinfo_column_
           /\ IF recs[r].colorized_
              THEN recs'[r] = resetColorized(recs[r])
              ELSE /\ \E column \in Columns, e \in EnvNoExtractors :
                        LET o == Call(recs[r], r, cinfo, column, TRUE, e)
                        IN  o.dissect_color /\ recs'[r] = o.rec
                   /\ \A column \in Columns, e \in EnvNoExtractors :
                        recs'[r] # Call(recs[r], r, cinfo, column, FALSE, e).rec]_vars

\* C15 witness: one record colorized by a pass, the other populated for the
\* current generation by a pass without colorization and still not colorized.
C15_Witness ==
    \E r \in Records, q \in Records :
        /\ recs[r].colorized_ /\ Current(recs[r], cinfo.cols, col_data_ver_)
        /\ ~recs[q].colorized_ /\ Current(recs[q], cinfo.cols, col_data_ver_)

\* The map classifies exactly the columns cols: its keys are the columns not
\* based on frame data, numbered in order.
Classifies(map, cols) ==
    /\ DOMAIN map = {i \in 0..(num_cols(cols) - 1) : ~col_based_on_frame_data(cols, i)}
    /\ \A i \in DOMAIN map :
         map[i] = Cardinality({k \in DOMAIN map : k < i})

\* C16 (as claimed): whenever the generation changes, cinfo_column_ is rebuilt:
\* after the step it classifies exactly the columns of the current descriptor.
C16_MapRebuilt ==
    [][col_data_ver_' # col_data_ver_ =>
         Classifies(cinfo_column_', cinfo'.cols)]_vars

\* C16 (amended): every resetColumns advances the generation by one.  A call
\* given a descriptor leaves a map that classifies exactly the columns of that
\* descriptor, whatever the map held before; a call given none leaves the map
\* and the descriptor as they were, entries of the earlier call included.
C16_MapRebuiltFromDescriptor ==
    [][col_data_ver_' # col_data_ver_ =>
         /\ col_data_ver_' = col_data_ver_ + 1
         /\ \/ Classifies(cinfo_column_', cinfo'.cols)
            \/ cinfo_column_' = cinfo_column_ /\ cinfo' = cinfo]_vars

\* C16 witness: the third generation, begun by a resetColumns given no
\* descriptor (the raw values of a dissection of the second generation are
\* still in cinfo, and no record has been dissected since), with the map of
\* two entries that the resetColumns of the second generation built.
C16_Witness ==
    /\ col_data_ver_ > 2
    /\ Cardinality(DOMAIN cinfo_column_) = 2
    /\ Classifies(cinfo_column_, cinfo.cols)
    /\ \E c \in 1..Len(cinfo.cols) : ~cinfo.col_expr_val[c].isNull
    /\ \A r \in Records : recs[r].data_ver_ < col_data_ver_

\* C17 (as claimed): in a population, a frame-data column that cinfo_column_
\* marks metadata-only gets the text of the frame's metadata, whatever its
\* "resolved" option and whatever raw value cinfo holds for it.
C17_MetadataOnlyColumns ==
    \A r \in Records, column \in Columns, colorized \in BOOLEAN, e \in Env :
        LET o == Call(recs[r], r, cinfo, column, colorized, e)
        IN  o.cached =>
              \A c \in 0..(num_cols(cinfo.cols) - 1) :
                  (MapValue(cinfo_column_, c) < 0 /\ col_based_on_frame_data(cinfo.cols, c))
                    => o.rec.col_text_[c + 1] = FrameText(r)

\* C18 (as claimed): every pass that populates the cache, the read-failure
\* fill included, looks the conversation up and stores the result in conv_.
C18_ConvEveryPopulation ==
    \A r \in Records, column \in Columns, colorized \in BOOLEAN, e \in Env :
        LET o == Call(recs[r], r, cinfo, column, colorized, e)
        IN  o.cached =>
              o.looked /\ o.rec.conv_ = find_conversation_pinfo(r)

\* C18 (amended): every pass whose read succeeds, whether or not it refills
\* the columns, looks the conversation up and stores the result in conv_; a
\* pass whose read fails makes no lookup and leaves conv_ as it was.
C18_ConvEverySuccessfulPass ==
    \A r \in Records, column \in Columns, colorized \in BOOLEAN, e \in EnvNoExtractors :
        LET o == Call(recs[r], r, cinfo, column, colorized, e)
        IN  o.read =>
              IF o.read_ok
              THEN o.looked /\ o.rec.conv_ = find_conversation_pinfo(r)
              ELSE ~o.looked /\ o.rec.conv_ = recs[r].conv_

\* C18 witness: a record whose row is the fill of a failed pass under a later
\* generation, still holding the conversation an earlier pass found.
C18_Witness ==
    \E r \in Records :
        /\ recs[r].conv_ = find_conversation_pinfo(r)
        /\ recs[r].data_ver_ > 0 /\ recs[r].data_ver_ < col_data_ver_
        /\ \E c \in 1..Len(recs[r].col_text_) :
             recs[r].col_text_[c] \in {ErrorMarker, Placeholder}

\* C19: columnString with colorized set, on a record whose col_text_ is not
\* empty, whose data_ver_ is current and whose colorized_ is false, runs a
\* dissect for the color only: it does not refill the columns and leaves
\* col_text_, lines_ and line_count_changed_ as they were, whether the read
\* succeeds or fails.
C19_ColorOnlyPass ==
    \A r \in Records, column \in Columns, e \in EnvNoExtractors :
        (/\ recs[r].col_text_ # <<>>
         /\ recs[r].data_ver_ = col_data_ver_
         /\ ~recs[r].colorized_
         /\ ~OutOfRange(FALSE, cinfo.cols, column))
        => LET o == Call(recs[r], r, cinfo, column, TRUE, e)
           IN  /\ o.dissected /\ o.dissect_color /\ o.read
               /\ ~o.dissect_columns /\ ~o.cached
               /\ o.rec.colorized_
               /\ o.rec.col_text_ = recs[r].col_text_
               /\ o.rec.lines_ = recs[r].lines_
               /\ o.rec.line_count_changed_ = recs[r].line_count_changed_

\* C19 witness: a current three-line row, populated by a pass without
\* colorization in a later generation, that a rule has since highlighted.
C19_Witness ==
    \E r \in Records :
        /\ Current(recs[r], cinfo.cols, col_data_ver_) /\ col_data_ver_ > 1
        /\ recs[r].lines_ = 3 /\ recs[r].line_count_changed_
        /\ recs[r].colorized_ /\ recs[r].color_filter = 1

\* C20: whenever columnString gets past the guard of line 63 and so reaches
\* col_text_->value(column), col_text_ has been allocated, on the first call
\* on a record and on any later one, whether reads succeed or fail.
C20_ListAllocated ==
    \A r \in Records, column \in Columns, colorized \in BOOLEAN, e \in EnvNoExtractors :
        ~OutOfRange(FALSE, cinfo.cols, column) =>
            LET o == Call(recs[r], r, cinfo, column, colorized, e)
            IN  /\ o.rec.allocated
                /\ ~recs[r].allocated => o.dissected

\* C20 witness: one record that only failed passes have served, under a
\* later generation, and one record never asked for (still unallocated).
C20_Witness ==
    \E r \in Records, q \in Records :
        /\ recs[r].allocated /\ recs[r].data_ver_ = 0 /\ ~recs[r].colorized_
        /\ col_data_ver_ > 1
        /\ ~recs[q].allocated

====
